---- MODULE Spec2Model ----
(***************************************************************************)
(* Ideas board backend: two service variants over one document store.      *)
(*   "backend" : src/backend/main.py  (pydantic-validated endpoints)       *)
(*   "root"    : src/main.py          (endpoints over database helpers)    *)
(* The store holds two collections, "idea" and "comment", kept here in     *)
(* natural (insertion) order.  Time is counted in whole days.              *)
(***************************************************************************)
EXTENDS Integers, Sequences, FiniteSets, TLC

VARIABLES svc, ideas, comments, now, resp, procs

vars == <<svc, ideas, comments, now, resp, procs>>

(* ------------------------------ bounds -------------------------------- *)
MaxIdeas == 2
MaxComments == 2
MaxVotes == 2
MaxNow == 1
NProcs == 3
MaxAge == 32

(* ------------------------- program constants -------------------------- *)
TitleMax == 200
DescMax == 2000
AuthorMax == 100
ContentMax == 2000
WeekDays == 7
MonthDays == 30

Services == {"backend", "root"}

(* ------------------------------- text --------------------------------- *)
(* A string is kept by its shape: leading whitespace, the core running     *)
(* from the first to the last non-blank character, trailing whitespace.    *)
(* A string of blanks only has core 0 and its blanks counted in lead.      *)
Text(l, c, t) == [lead |-> l, core |-> c, trail |-> t]

Length(s) == s.lead + s.core + s.trail

\* str.strip()
Strip(s) == Text(0, s.core, 0)

\* Optional[str]: <<>> is None, <<s>> is the string s
None == <<>>
Some(x) == <<x>>

\* `x.strip() if x else None`: None and "" are falsy
StripOpt(o) == IF o = None \/ Length(o[1]) = 0 THEN None ELSE Some(Strip(o[1]))

(* ---------------------------- identifiers ----------------------------- *)
(* An identifier on the wire is a string token.  hex is the 12-byte value  *)
(* its digits spell, upper tells whether its letters are written in upper  *)
(* case, valid whether it is 24 hexadecimal digits at all.                 *)
Token(h, u, v) == [hex |-> h, upper |-> u, valid |-> v]

BadToken == Token(0, FALSE, FALSE)

\* ObjectId(str(v)): accepts 24 hex digits in either case, raises otherwise
IsValidId(tok) == tok.valid

ObjectIdOf(tok) == tok.hex

\* str(ObjectId): always the lower-case spelling
StrOfId(oid) == Token(oid, FALSE, TRUE)

(* ------------------------------ the store ----------------------------- *)
\* the _id insert_one assigns to a new idea / comment document
NewIdeaId == Len(ideas) + 1

NewCommentId == 0 - (Len(comments) + 1)

IdeaDoc(id, title, description, votes, created, updated) ==
    [_id |-> id, title |-> title, description |-> description, votes |-> votes,
     created_at |-> created, updated_at |-> updated]

CommentDoc(id, ideaTok, author, content, created, updated) ==
    [_id |-> id, idea_id |-> ideaTok, author |-> author, content |-> content,
     created_at |-> created, updated_at |-> updated]

\* collection.find(filter) returns documents in natural order, which for these
\* insert-only collections is the order of insertion
IsIdea(d, oid) == d._id = oid

FindIdeas(oid) == SelectSeq(ideas, LAMBDA d : IsIdea(d, oid))

\* find_one_and_update matched no document and returns None
NoneFound(oid) == FindIdeas(oid) = <<>>

\* mutant: the existence check left out
IdeaExistsAlways(oid) == TRUE

\* add_comment: find_one({"_id": oid}) is truthy
IdeaExists(oid) == Len(FindIdeas(oid)) > 0

\* mutant: the vote count written with $set instead of $inc
IncVotesSet(d, t) == [d EXCEPT !.votes = 1, !.updated_at = t]

\* {"$inc": {"votes": 1}, "$set": {"updated_at": t}} applied to one document

IncVotes(d, t) == [d EXCEPT !.votes = @ + 1, !.updated_at = t]

\* mutant: update_many with an empty filter
UpdateTouchesAll(coll, oid, t) == [i \in 1..Len(coll) |-> IncVotes(coll[i], t)]

\* find_one_and_update: the collection after the single-document update

FindOneAndUpdate(coll, oid, t) ==
    [i \in 1..Len(coll) |-> IF IsIdea(coll[i], oid) THEN IncVotes(coll[i], t) ELSE coll[i]]

\* mutant: the idea_id filter dropped
CommentsOfAny(tok) == comments

\* count_documents({"idea_id": tok}) and find({"idea_id": tok}): string equality

CommentsOf(tok) == SelectSeq(comments, LAMBDA c : c.idea_id = tok)

CountComments(tok) == Len(CommentsOf(tok))

(* ----------------------------- responses ------------------------------ *)
Resp(op, status, arg, body) == [op |-> op, status |-> status, arg |-> arg, body |-> body]

\* serialize_id / serialize_doc plus the comments_count the handler attaches
\* (Optional: the root create and upvote responses carry none)
IdeaOut(d, cc) ==
    [id |-> StrOfId(d._id), title |-> d.title, description |-> d.description,
     votes |-> d.votes, created_at |-> d.created_at, updated_at |-> d.updated_at,
     comments_count |-> cc]

CommentOut(c) ==
    [id |-> StrOfId(c._id), idea_id |-> c.idea_id, author |-> c.author,
     content |-> c.content, created_at |-> c.created_at, updated_at |-> c.updated_at]

(* ------------------------------ sorting ------------------------------- *)
\* tuple order of the sort keys; list.sort(reverse=True) puts larger keys first
KeyOf(x, mode) ==
    CASE mode = "votes_created"    -> <<x.votes, x.created_at>>
      [] mode = "comments_created" -> <<x.comments_count[1], x.created_at>>
      [] mode = "votes"            -> <<x.votes, 0>>
      [] mode = "comments"         -> <<x.comments_count[1], 0>>
      [] OTHER                     -> <<x.created_at, 0>>

KeyLess(a, b) == a[1] < b[1] \/ (a[1] = b[1] /\ a[2] < b[2])

RECURSIVE InsertDesc(_, _, _)
\* x goes behind every element whose key is not smaller (stable)
InsertDesc(x, s, mode) ==
    IF s = <<>> THEN <<x>>
    ELSE IF KeyLess(KeyOf(Head(s), mode), KeyOf(x, mode)) THEN <<x>> \o s
    ELSE <<Head(s)>> \o InsertDesc(x, Tail(s), mode)

RECURSIVE SortDesc(_, _)
\* list.sort(key=..., reverse=True) and cursor.sort(field, DESCENDING): elements
\* with equal keys keep the order they came in
SortDesc(s, mode) ==
    IF s = <<>> THEN <<>>
    ELSE InsertDesc(s[Len(s)], SortDesc(SubSeq(s, 1, Len(s) - 1), mode), mode)

(* --------------------------- request models --------------------------- *)
\* IdeaCreate (backend): Field(min_length=1, max_length=200) on the raw title
IdeaCreateValid(p) ==
    /\ Length(p.title) >= 1
    /\ Length(p.title) <= TitleMax
    /\ (p.description = None \/ Length(p.description[1]) <= DescMax)

\* CommentCreate (backend): bounds on the raw author and content
CommentCreateValid(p) ==
    /\ Length(p.content) >= 1
    /\ Length(p.content) <= ContentMax
    /\ (p.author = None \/ Length(p.author[1]) <= AuthorMax)

(* ------------------------- list_ideas, shared ------------------------- *)
\* the $gte bound of the time filter; -1 stands for "no filter"
NoFilter == 0 - 1

RangeStart(range, t) ==
    CASE range = "month" -> t - MonthDays
      [] range = "week"  -> t - WeekDays
      [] OTHER           -> NoFilter

\* mutant: $gt in place of $gte
MatchesStrict(d, range, t) == range = "all" \/ d.created_at > RangeStart(range, t)

\* {"created_at": {"$gte": start}}

Matches(d, range, t) == range = "all" \/ d.created_at >= RangeStart(range, t)

FilterIdeas(range, t) == SelectSeq(ideas, LAMBDA d : Matches(d, range, t))

\* $match idea_id in [str(iid) ...], $group by idea_id, $sum 1; the row of an
\* idea is keyed by the lower-case spelling of its _id
CountFor(d) == CountComments(StrOfId(d._id))

Enrich(found) == [i \in 1..Len(found) |-> IdeaOut(found[i], Some(CountFor(found[i])))]

(* --------------------- handlers of src/backend/main.py ---------------- *)
B_create_idea(p) ==
    /\ svc = "backend"
    /\ IF ~IdeaCreateValid(p)
       THEN /\ resp' = Resp("create_idea", 422, p, <<>>)
            /\ UNCHANGED <<ideas>>
       ELSE /\ Len(ideas) < MaxIdeas
            /\ LET doc == IdeaDoc(NewIdeaId, Strip(p.title), StripOpt(p.description),
                                  0, now, now)
               IN /\ ideas' = Append(ideas, doc)
                  /\ resp' = Resp("create_idea", 200, p, <<IdeaOut(doc, Some(0))>>)
    /\ UNCHANGED <<svc, comments, now, procs>>

B_list_ideas(range, sort) ==
    /\ svc = "backend"
    /\ LET items == Enrich(FilterIdeas(range, now))
           mode  == IF sort = "votes" THEN "votes_created" ELSE "comments_created"
       IN resp' = Resp("list_ideas", 200, <<range, sort>>, SortDesc(items, mode))
    /\ UNCHANGED <<svc, ideas, comments, now, procs>>

B_upvote_idea(tok) ==
    /\ svc = "backend"
    /\ IF ~IsValidId(tok)
       THEN \* ValueError out of PyObjectId.validate, not handled: 500
            /\ resp' = Resp("upvote_idea", 500, tok, <<>>)
            /\ UNCHANGED ideas
       ELSE IF NoneFound(ObjectIdOf(tok))
       THEN /\ resp' = Resp("upvote_idea", 404, tok, <<>>)
            /\ UNCHANGED ideas
       ELSE /\ FindIdeas(ObjectIdOf(tok))[1].votes < MaxVotes
            /\ ideas' = FindOneAndUpdate(ideas, ObjectIdOf(tok), now)
            /\ LET res == SelectSeq(ideas', LAMBDA d : IsIdea(d, ObjectIdOf(tok)))[1]
               IN resp' = Resp("upvote_idea", 200, tok,
                               <<IdeaOut(res, Some(CountComments(tok)))>>)
    /\ UNCHANGED <<svc, comments, now, procs>>

B_list_comments(tok) ==
    /\ svc = "backend"
    /\ LET docs == SortDesc(CommentsOf(tok), "created")
       IN resp' = Resp("list_comments", 200, tok, [i \in 1..Len(docs) |-> CommentOut(docs[i])])
    /\ UNCHANGED <<svc, ideas, comments, now, procs>>

B_add_comment(tok, p) ==
    /\ svc = "backend"
    /\ IF ~CommentCreateValid(p)
       THEN /\ resp' = Resp("add_comment", 422, tok, <<>>)
            /\ UNCHANGED comments
       ELSE IF ~IsValidId(tok)
       THEN /\ resp' = Resp("add_comment", 500, tok, <<>>)
            /\ UNCHANGED comments
       ELSE IF ~IdeaExists(ObjectIdOf(tok))
       THEN /\ resp' = Resp("add_comment", 404, tok, <<>>)
            /\ UNCHANGED comments
       ELSE /\ Len(comments) < MaxComments
            /\ LET doc == CommentDoc(NewCommentId, tok, StripOpt(p.author),
                                     Strip(p.content), now, now)
               IN /\ comments' = Append(comments, doc)
                  /\ resp' = Resp("add_comment", 200, tok, <<CommentOut(doc)>>)
    /\ UNCHANGED <<svc, ideas, now, procs>>

(* ------------------------ handlers of src/main.py --------------------- *)
\* database.create_document: the timestamps it adds to the document it inserts
create_document(t) == [created_at |-> t, updated_at |-> t]

R_create_idea(p) ==
    /\ svc = "root"
    /\ Len(ideas) < MaxIdeas
    /\ LET st  == create_document(now)
           doc == IdeaDoc(NewIdeaId, p.title, p.description, 0, st.created_at, st.updated_at)
       IN /\ ideas' = Append(ideas, doc)
          /\ resp' = Resp("create_idea", 200, p, <<IdeaOut(doc, None)>>)
    /\ UNCHANGED <<svc, comments, now, procs>>

R_list_ideas(range, sort) ==
    /\ svc = "root"
    /\ LET enriched == Enrich(FilterIdeas(range, now))
           mode     == IF sort = "comments" THEN "comments" ELSE "votes"
       IN resp' = Resp("list_ideas", 200, <<range, sort>>, SortDesc(enriched, mode))
    /\ UNCHANGED <<svc, ideas, comments, now, procs>>

R_upvote_idea(tok) ==
    /\ svc = "root"
    /\ IF ~IsValidId(tok)
       THEN /\ resp' = Resp("upvote_idea", 400, tok, <<>>)
            /\ UNCHANGED ideas
       ELSE IF NoneFound(ObjectIdOf(tok))
       THEN /\ resp' = Resp("upvote_idea", 404, tok, <<>>)
            /\ UNCHANGED ideas
       ELSE /\ FindIdeas(ObjectIdOf(tok))[1].votes < MaxVotes
            /\ ideas' = FindOneAndUpdate(ideas, ObjectIdOf(tok), now)
            /\ LET result == SelectSeq(ideas', LAMBDA d : IsIdea(d, ObjectIdOf(tok)))[1]
               IN resp' = Resp("upvote_idea", 200, tok, <<IdeaOut(result, None)>>)
    /\ UNCHANGED <<svc, comments, now, procs>>

R_get_comments(tok) ==
    /\ svc = "root"
    /\ IF ~IsValidId(tok)
       THEN resp' = Resp("list_comments", 400, tok, <<>>)
       ELSE LET cs == SortDesc(CommentsOf(tok), "created")
            IN resp' = Resp("list_comments", 200, tok, [i \in 1..Len(cs) |-> CommentOut(cs[i])])
    /\ UNCHANGED <<svc, ideas, comments, now, procs>>

R_add_comment(tok, p) ==
    /\ svc = "root"
    /\ IF ~IsValidId(tok)
       THEN /\ resp' = Resp("add_comment", 400, tok, <<>>)
            /\ UNCHANGED comments
       ELSE IF ~IdeaExists(ObjectIdOf(tok))
       THEN /\ resp' = Resp("add_comment", 404, tok, <<>>)
            /\ UNCHANGED comments
       ELSE /\ Len(comments) < MaxComments
            /\ LET st  == create_document(now)
                   doc == CommentDoc(NewCommentId, tok, p.author, p.content,
                                     st.created_at, st.updated_at)
               IN /\ comments' = Append(comments, doc)
                  /\ resp' = Resp("add_comment", 200, tok, <<CommentOut(doc)>>)
    /\ UNCHANGED <<svc, ideas, now, procs>>

(* ------------------------------ the clock ----------------------------- *)
\* a day passes (utcnow / now(timezone.utc) read by the next handler)
Tick(cap) ==
    /\ now < cap
    /\ now' = now + 1
    /\ UNCHANGED <<svc, ideas, comments, resp, procs>>

(* ---------------- upvote_idea as concurrent requests ------------------ *)
\* one request per worker: the identifier is parsed, then the store runs
\* find_one_and_update, then (backend) count_documents, then it returns
Idle == [pc |-> "idle", tok |-> BadToken, status |-> 0, res |-> None, count |-> None]

U_validate(p, tok) ==
    /\ procs[p].pc = "idle"
    /\ procs' = [procs EXCEPT ![p] =
         IF IsValidId(tok)
         THEN [@ EXCEPT !.pc = "update", !.tok = tok]
         ELSE [@ EXCEPT !.pc = "done", !.tok = tok,
                        !.status = IF svc = "backend" THEN 500 ELSE 400]]
    /\ UNCHANGED <<svc, ideas, comments, now, resp>>

U_find_one_and_update(p) ==
    /\ procs[p].pc = "update"
    /\ LET oid == ObjectIdOf(procs[p].tok)
       IN IF NoneFound(oid)
          THEN /\ procs' = [procs EXCEPT ![p] = [@ EXCEPT !.pc = "done", !.status = 404]]
               /\ UNCHANGED ideas
          ELSE /\ ideas' = FindOneAndUpdate(ideas, oid, now)
               /\ LET res == SelectSeq(ideas', LAMBDA d : IsIdea(d, oid))[1]
                  IN procs' = [procs EXCEPT ![p] =
                       IF svc = "backend"
                       THEN [@ EXCEPT !.pc = "count", !.res = Some(res)]
                       ELSE [@ EXCEPT !.pc = "done", !.status = 200, !.res = Some(res)]]
    /\ UNCHANGED <<svc, comments, now, resp>>

U_count_documents(p) ==
    /\ procs[p].pc = "count"
    /\ procs' = [procs EXCEPT ![p] =
         [@ EXCEPT !.pc = "done", !.status = 200,
                   !.count = Some(CountComments(procs[p].tok))]]
    /\ UNCHANGED <<svc, ideas, comments, now, resp>>

(* ------------------------------- inputs ------------------------------- *)
\* identifiers a client may send: either spelling of an id the store has or
\* may assign, the id after those (never assigned), and a malformed token
Tokens == {Token(h, u, TRUE) : h \in 1..MaxIdeas, u \in BOOLEAN}
          \cup {Token(MaxIdeas + 1, FALSE, TRUE), BadToken}

\* a narrower choice: the first idea in either spelling, the last one, the id
\* never assigned, a malformed token
FewTokens == {StrOfId(1), Token(1, TRUE, TRUE), StrOfId(MaxIdeas),
              StrOfId(MaxIdeas + 1), BadToken}

PlainTitle == Text(0, 1, 0)

Titles == {Text(0, 0, 0), Text(1, 0, 0), PlainTitle, Text(1, 1, 1),
           Text(0, TitleMax, 0), Text(0, TitleMax + 1, 0), Text(1, TitleMax, 0)}

Descriptions == {None, Some(Text(0, 0, 0)), Some(Text(1, 1, 0)), Some(Text(0, DescMax + 1, 0))}

PlainIdea == [title |-> PlainTitle, description |-> None]

IdeaPayloads == {[title |-> t, description |-> d] : t \in Titles, d \in Descriptions}

CommentPayloads == {[author |-> None, content |-> c] : c \in {Text(0, 0, 0), Text(0, 1, 0)}}

Ranges == {"all", "week", "month"}

Sorts == {"votes", "comments"}

(* --------------------- the sequential specification ------------------- *)
Init ==
    /\ svc \in Services
    /\ ideas = <<>>
    /\ comments = <<>>
    /\ now = 0
    /\ resp = Resp("none", 0, <<>>, <<>>)
    /\ procs = [p \in 1..NProcs |-> Idle]

\* every handler of either service, one request at a time
Next ==
    \/ B_create_idea(PlainIdea)
    \/ \E r \in Ranges, s \in Sorts : B_list_ideas(r, s)
    \/ \E tok \in Tokens : B_upvote_idea(tok)
    \/ \E tok \in Tokens : B_list_comments(tok)
    \/ \E tok \in Tokens, p \in CommentPayloads : B_add_comment(tok, p)
    \/ R_create_idea(PlainIdea)
    \/ \E r \in Ranges, s \in Sorts : R_list_ideas(r, s)
    \/ \E tok \in Tokens : R_upvote_idea(tok)
    \/ \E tok \in Tokens : R_get_comments(tok)
    \/ \E tok \in Tokens, p \in CommentPayloads : R_add_comment(tok, p)
    \/ Tick(MaxNow)

Spec == Init /\ [][Next]_vars

\* idea creation over the whole range of titles and descriptions
NextTitles ==
    \/ \E p \in IdeaPayloads : B_create_idea(p)
    \/ \E p \in IdeaPayloads : R_create_idea(p)
    \/ \E tok \in Tokens : B_upvote_idea(tok)
    \/ \E tok \in Tokens : R_upvote_idea(tok)
    \/ Tick(MaxNow)

SpecTitles == Init /\ [][NextTitles]_vars

\* listing by time range, over MaxAge days
NextRange ==
    \/ B_create_idea(PlainIdea)
    \/ R_create_idea(PlainIdea)
    \/ \E r \in Ranges : B_list_ideas(r, "votes")
    \/ \E r \in Ranges : R_list_ideas(r, "votes")
    \/ Tick(MaxAge)

SpecRange == Init /\ [][NextRange]_vars

\* ideas and their comments: creation, commenting, comment listing
NextComments ==
    \/ B_create_idea(PlainIdea)
    \/ R_create_idea(PlainIdea)
    \/ \E tok \in FewTokens : B_list_comments(tok)
    \/ \E tok \in FewTokens : R_get_comments(tok)
    \/ \E tok \in FewTokens, p \in CommentPayloads : B_add_comment(tok, p)
    \/ \E tok \in FewTokens, p \in CommentPayloads : R_add_comment(tok, p)
    \/ Tick(MaxNow)

SpecComments == Init /\ [][NextComments]_vars

\* every handler again, on fewer inputs: comments go to the first idea, the id
\* never assigned or a malformed token, and the listings take one argument
CommentTokens == {StrOfId(1), StrOfId(MaxIdeas + 1), BadToken}

NextMutation ==
    \/ B_create_idea(PlainIdea)
    \/ B_list_ideas("all", "votes")
    \/ \E tok \in FewTokens : B_upvote_idea(tok)
    \/ B_list_comments(StrOfId(1))
    \/ \E tok \in CommentTokens, p \in CommentPayloads : B_add_comment(tok, p)
    \/ R_create_idea(PlainIdea)
    \/ R_list_ideas("all", "votes")
    \/ \E tok \in FewTokens : R_upvote_idea(tok)
    \/ R_get_comments(StrOfId(1))
    \/ \E tok \in CommentTokens, p \in CommentPayloads : R_add_comment(tok, p)
    \/ Tick(MaxNow)

SpecMutation == Init /\ [][NextMutation]_vars

\* upvotes served concurrently: the store steps of NProcs requests interleave
NextConc ==
    \/ B_create_idea(PlainIdea)
    \/ R_create_idea(PlainIdea)
    \/ \E p \in 1..NProcs, tok \in FewTokens : U_validate(p, tok)
    \/ \E p \in 1..NProcs : U_find_one_and_update(p)
    \/ \E p \in 1..NProcs : U_count_documents(p)

SpecConc == Init /\ [][NextConc]_vars

(* ======================= properties of the claims ===================== *)
IdeaIds == {ideas[i]._id : i \in 1..Len(ideas)}

\* the idea a well-formed token names, by the store's own lookup
Names(tok, d) == tok.valid /\ tok.hex = d._id

AllDone == \A p \in 1..NProcs : procs[p].pc = "done"

Succeeded(oid) == {p \in 1..NProcs : procs[p].status = 200 /\ procs[p].tok.hex = oid}

\* C1: when the concurrent upvote requests have all completed, every idea's
\* vote count is its count at creation (0) plus the number of upvote requests
\* on it that succeeded, whatever the interleaving of their store steps: no
\* upvote is lost.
C1_NoLostUpvote ==
    AllDone => \A i \in 1..Len(ideas) :
                  ideas[i].votes = Cardinality(Succeeded(ideas[i]._id))

\* all NProcs requests hit the same idea and completed
C1_Witness ==
    /\ AllDone
    /\ \E i \in 1..Len(ideas) : Cardinality(Succeeded(ideas[i]._id)) = NProcs

(* ---- list_ideas: order and counts ---- *)
IsList == resp.op = "list_ideas" /\ resp.status = 200

PrimaryKey(b) == IF resp.arg[2] = "comments" THEN b.comments_count[1] ELSE b.votes

\* C2: list_ideas returns the ideas by votes (sort=votes) or comments_count
\* (sort=comments) descending, and of two ideas with equal primary key the one
\* created later comes first.
C2_SortedWithTieBreak ==
    IsList => \A i, j \in 1..Len(resp.body) :
                 i < j => \/ PrimaryKey(resp.body[i]) > PrimaryKey(resp.body[j])
                          \/ /\ PrimaryKey(resp.body[i]) = PrimaryKey(resp.body[j])
                             /\ resp.body[i].created_at >= resp.body[j].created_at

\* the comments add_comment accepted for the idea with this wire identifier
AddedTo(id) == {k \in 1..Len(comments) : comments[k].idea_id.hex = id.hex}

\* C3: every idea list_ideas returns carries a comments_count equal to the
\* number of persisted comments that were added to that idea (0 when none):
\* adding one comment to idea X makes its comments_count 1.
C3_CountsAddedComments ==
    IsList => \A i \in 1..Len(resp.body) :
                 resp.body[i].comments_count = Some(Cardinality(AddedTo(resp.body[i].id)))

(* ---- upvote_idea: errors ---- *)
NoIdeaNamedBy(tok) == \A i \in 1..Len(ideas) : ~Names(tok, ideas[i])

UpvoteStep(tok) == B_upvote_idea(tok) \/ R_upvote_idea(tok)

\* C4: upvote on a malformed identifier answers 400 and on a well-formed
\* identifier that no idea has 404; in both cases no idea changes and no
\* document is created.
C4_UpvoteErrors ==
    [][\A tok \in Tokens :
         (resp'.op = "upvote_idea" /\ UpvoteStep(tok)) =>
            /\ ~tok.valid => (resp'.status = 400 /\ ideas' = ideas /\ comments' = comments)
            /\ (tok.valid /\ NoIdeaNamedBy(tok))
                 => (resp'.status = 404 /\ ideas' = ideas /\ comments' = comments)]_vars

(* ---- add_comment: the idea must exist ---- *)
AddCommentStep(tok, p) == B_add_comment(tok, p) \/ R_add_comment(tok, p)

\* every comment of cs has an idea_id that names an idea of is
AllNameAnIdea(cs, is) ==
    \A k \in 1..Len(cs) : \E i \in 1..Len(is) : Names(cs[k].idea_id, is[i])

\* C5: add_comment on a well-formed identifier that names no idea (with a body
\* the service accepts) answers 404 and leaves the comment collection as it
\* was; and after every step each persisted comment's idea_id names an idea of
\* the store (the collections start empty).
C5_CommentNeedsIdea ==
    [][/\ AllNameAnIdea(comments', ideas')
       /\ resp'.op = "add_comment" =>
            \A tok \in Tokens, p \in CommentPayloads :
               (/\ tok.valid
                /\ NoIdeaNamedBy(tok)
                /\ (svc = "backend" => CommentCreateValid(p))
                /\ AddCommentStep(tok, p))
               => (resp'.status = 404 /\ comments' = comments)]_vars

\* a comment on an idea that is not there was refused while others are stored
C5_Witness ==
    /\ resp.op = "add_comment"
    /\ resp.status = 404
    /\ resp.arg.valid
    /\ Len(ideas) >= 1
    /\ Len(comments) >= 1

(* ---- create_idea: validation ---- *)
\* C6: (backend) a title that is empty once trimmed is rejected with 422, and
\* every persisted idea has a title of 1 to TitleMax characters.
C6_TitleBounds ==
    svc = "backend" =>
        /\ \A i \in 1..Len(ideas) :
              Length(ideas[i].title) >= 1 /\ Length(ideas[i].title) <= TitleMax
        /\ (resp.op = "create_idea" /\ resp.arg.title.core = 0) => resp.status = 422

(* ---- list_ideas: the time range ---- *)
Since(range, t) ==
    {StrOfId(ideas[i]._id) : i \in
        {k \in 1..Len(ideas) :
            \/ range = "all"
            \/ range = "week" /\ ideas[k].created_at >= t - WeekDays
            \/ range = "month" /\ ideas[k].created_at >= t - MonthDays}}

ListStep(r, s) == B_list_ideas(r, s) \/ R_list_ideas(r, s)

\* C7: list_ideas called at time now returns exactly the persisted ideas with
\* created_at >= now - 7 days (week), >= now - 30 days (month), or all of them
\* (all), each once.
C7_RangeExact ==
    [][\A r \in Ranges, s \in Sorts :
         (resp'.op = "list_ideas" /\ ListStep(r, s)) =>
            /\ {resp'.body[i].id : i \in 1..Len(resp'.body)} = Since(r, now)
            /\ Len(resp'.body) = Cardinality(Since(r, now))]_vars

\* a week listing that drops the idea of 8 days ago and keeps that of 6 days ago
C7_Witness ==
    /\ IsList
    /\ resp.arg[1] = "week"
    /\ Len(ideas) = 2
    /\ ideas[1].created_at = now - (WeekDays + 1)
    /\ ideas[2].created_at = now - (WeekDays - 1)
    /\ Len(resp.body) = 1
    /\ resp.body[1].id = StrOfId(ideas[2]._id)

(* ---- what mutates an idea ---- *)
\* the step is a successful upvote of the idea at position i, and nothing else
UpvotedOnly(i) ==
    /\ resp'.op = "upvote_idea"
    /\ resp'.status = 200
    /\ \E tok \in Tokens : Names(tok, ideas[i]) /\ UpvoteStep(tok)
    /\ ideas'[i] = [ideas[i] EXCEPT !.votes = @ + 1, !.updated_at = now]
    /\ \A j \in 1..Len(ideas) : j # i => ideas'[j] = ideas[j]
    /\ Len(ideas') = Len(ideas)
    /\ comments' = comments

\* C8: in every step each existing idea keeps its identifier and its vote count
\* does not decrease; an existing idea changes only in a successful upvote of
\* it, which adds 1 to its votes, sets its updated_at, and leaves its title,
\* description and created_at, every other idea and every comment unchanged.
C8_OnlyUpvoteMutates ==
    [][/\ Len(ideas') >= Len(ideas)
       /\ \A i \in 1..Len(ideas) :
            /\ ideas'[i]._id = ideas[i]._id
            /\ ideas'[i].votes >= ideas[i].votes
            /\ (ideas'[i] # ideas[i] => UpvotedOnly(i))]_vars

\* an upvote went through beside another idea and a stored comment
C8_Witness ==
    /\ resp.op = "upvote_idea"
    /\ resp.status = 200
    /\ Len(ideas) = 2
    /\ Len(comments) >= 1
    /\ resp.body[1].votes = MaxVotes
    /\ resp.body[1].updated_at > resp.body[1].created_at

(* ---- list_comments ---- *)
Owned(tok) == {k \in 1..Len(comments) : comments[k].idea_id = tok}

\* C9: list_comments on a well-formed identifier answers 200, whether or not an
\* idea or a comment has it, with exactly the persisted comments whose idea_id
\* equals the identifier, each once, newest first.
C9_ListComments ==
    (resp.op = "list_comments" /\ resp.arg.valid) =>
        /\ resp.status = 200
        /\ Len(resp.body) = Cardinality(Owned(resp.arg))
        /\ \A k \in Owned(resp.arg) :
              \E i \in 1..Len(resp.body) : resp.body[i] = CommentOut(comments[k])
        /\ \A i, j \in 1..Len(resp.body) :
              i < j => resp.body[i].created_at >= resp.body[j].created_at

\* two comments of one identifier came back, the later one first
C9_Witness ==
    /\ resp.op = "list_comments"
    /\ resp.status = 200
    /\ Len(resp.body) = 2
    /\ resp.body[1].created_at > resp.body[2].created_at

(* ---- create_idea: the returned record ---- *)
\* C10: a successful create_idea returns the persisted record with votes = 0,
\* comments_count = 0, created_at = updated_at and an identifier no other idea
\* has; and updated_at >= created_at for every idea in every state.
C10_CreatedRecord ==
    /\ \A i \in 1..Len(ideas) : ideas[i].updated_at >= ideas[i].created_at
    /\ \A i, j \in 1..Len(ideas) : i # j => ideas[i]._id # ideas[j]._id
    /\ (resp.op = "create_idea" /\ resp.status = 200) =>
          /\ resp.body[1].votes = 0
          /\ resp.body[1].comments_count = Some(0)
          /\ resp.body[1].created_at = resp.body[1].updated_at
          /\ \E i \in 1..Len(ideas) : IdeaOut(ideas[i], Some(0)) = resp.body[1]

====
